---- MODULE Spec2Model ----
(***************************************************************************)
(* The Refactoring Swarm orchestrator (src/main.py) and its verification   *)
(* runner (src/src/judge.py) as a state machine.                           *)
(*                                                                         *)
(* One batch: main() discovers the artifacts, then runs the compiled       *)
(* workflow graph  auditor -> tester -> fixer -> judge -> {increment, END} *)
(* once per artifact.  The hosted-model capabilities (Auditor.analyze,     *)
(* Tester.generate_tests, Fixer.apply_fix) and the external runner         *)
(* processes are the environment: every outcome they can produce is drawn  *)
(* with \E in the action of the node that calls them.                      *)
(*                                                                         *)
(* log_experiment (src/utils/logger.py) and print are taken to return: the *)
(* logger is not part of the source tree, and neither writes AgentState.   *)
(* The pictograph that opens some messages is left out of their text.      *)
(***************************************************************************)
EXTENDS Integers, Sequences, FiniteSets, TLC

\* ------------------------------------------------------------------ bounds
MaxFiles == 2        \* artifacts in the target directory: 0..MaxFiles
MaxIterBound == 3    \* --max_iter values tried: 0..MaxIterBound (and one below)
BatchFiles == 3      \* the same two bounds, for the batch specification
BatchMaxIter == 2
CallCap == 6         \* the call counters of the history saturate here

\* --------------------------------------------------------- program constants
RECURSION_LIMIT_BUFFER == 100

\* -------------------------------------------------------------------- text
\* A text (message, transcript) is a sequence of words, so that formatting is
\* concatenation and `marker in output` is a search for a contiguous run.
\* Python's None for an optional text is the one-word text below, which no
\* message or transcript of the model equals.
None == <<"<None>">>

\* `if x:` on an optional text: None and the empty text are falsy.
Truthy(x) == x # None /\ x # <<>>

\* `marker in text`
Contains(text, marker) ==
    \E i \in 1..(Len(text) - Len(marker) + 1) :
        SubSeq(text, i, i + Len(marker) - 1) = marker

\* str.lower(), on the words the runners print
LowerWord(w) ==
    CASE w = "NO" -> "no"
      [] w = "TESTS" -> "tests"
      [] w = "RAN" -> "ran"
      [] w = "Ran" -> "ran"
      [] w = "OK" -> "ok"
      [] w = "FAILED" -> "failed"
      [] w = "PASSED" -> "passed"
      [] OTHER -> w
lower(text) == [i \in 1..Len(text) |-> LowerWord(text[i])]

Min(a, b) == IF a < b THEN a ELSE b
Bump(n) == Min(n + 1, CallCap)

\* ------------------------------------------------------------------- paths
\* A path is [dir |-> sequence of directory names, name |-> file name]; a
\* file name is [stem, ext], so that os.path.splitext, basename and dirname
\* are projections and os.path.join is a construction.
TARGET_DIR == <<"target">>
FileName(stem) == [stem |-> stem, ext |-> ".py"]
Stems == <<"alpha", "beta", "gamma", "delta">>
Join(dir, name) == [dir |-> dir, name |-> name]
dirname(p) == p.dir
basename(p) == p.name
splitext0(name) == name.stem
ParentDir(dir) == IF dir = <<>> THEN <<>> ELSE SubSeq(dir, 1, Len(dir) - 1)
TestPrefixed(name) == [stem |-> "test_" \o name.stem, ext |-> name.ext]
TestSuffixed(stem) == [stem |-> stem \o "_test", ext |-> ".py"]
\* Python's None for an optional path (test_file): no path of the model.
NoPath == [dir |-> <<>>, name |-> [stem |-> "", ext |-> ""]]

\* Tester.generate_tests: where the generated harness is written.
\* generate_tests writing the harness over the file it read
test_file_path_in_place(file_path) == file_path

test_file_path(file_path) ==
    Join(dirname(file_path), TestPrefixed(basename(file_path)))

\* The conventional locations searched in another order: tests/ first
test_patterns_tests_dir_first(file_path) ==
    LET directory == dirname(file_path)
        filename == basename(file_path)
        filename_no_ext == splitext0(filename)
    IN  << Join(Append(directory, "tests"), TestSuffixed(filename_no_ext)),
           Join(Append(directory, "tests"), TestPrefixed(filename)),
           Join(directory, TestSuffixed(filename_no_ext)),
           Join(directory, TestPrefixed(filename)),
           Join(Append(ParentDir(directory), "tests"), TestPrefixed(filename)) >>

\* Judge.run_tests: the ordered list of conventional harness locations.
test_patterns(file_path) ==
    LET directory == dirname(file_path)
        filename == basename(file_path)
        filename_no_ext == splitext0(filename)
    IN  << Join(directory, TestPrefixed(filename)),
           Join(directory, TestSuffixed(filename_no_ext)),
           Join(Append(directory, "tests"), TestPrefixed(filename)),
           Join(Append(directory, "tests"), TestSuffixed(filename_no_ext)),
           Join(Append(ParentDir(directory), "tests"), TestPrefixed(filename)) >>

\* ------------------------------------------------- the verification runner
\* What subprocess.run(..., timeout=30) can do: return a completed process,
\* or raise FileNotFoundError (no such binary), TimeoutExpired, or another
\* OSError (PermissionError: the binary is there and cannot be executed).
\* An exception is a record of the same shape, its message in stderr.
Ran(rc, stdout, stderr) ==
    [kind |-> "ran", returncode |-> rc, stdout |-> stdout, stderr |-> stderr]
Raises(kind, msg) ==
    [kind |-> kind, returncode |-> -1, stdout |-> <<>>, stderr |-> msg]

PytestOutcomes ==
    { Ran(0, <<"collected", "1", "item", "PASSED", "1", "passed">>, <<>>),
      Ran(1, <<"collected", "1", "item", "FAILED", "1", "failed">>, <<>>),
      Ran(5, <<"collected", "0", "items", "no", "tests", "ran">>, <<>>),
      Ran(2, <<"collected", "0", "items", "/", "1", "error">>, <<>>),
      Raises("FileNotFoundError", <<"No", "such", "file:", "pytest">>),
      Raises("TimeoutExpired", <<"timed", "out">>),
      Raises("PermissionError", <<"Permission", "denied:", "pytest">>) }

UnittestOutcomes ==
    { Ran(0, <<>>, <<"Ran", "1", "test", "OK">>),
      Ran(1, <<>>, <<"Ran", "1", "test", "FAILED">>),
      Ran(5, <<>>, <<"Ran", "0", "tests", "NO", "TESTS", "RAN">>),
      Ran(0, <<>>, <<"Ran", "0", "tests", "OK">>),
      Raises("FileNotFoundError", <<"No", "such", "file:", "python">>),
      Raises("TimeoutExpired", <<"timed", "out">>),
      Raises("PermissionError", <<"Permission", "denied:", "python">>) }

\* What open(file_path) + compile(code) can do in the syntax-only fallback.
SyntaxOutcomes ==
    { Ran(0, <<>>, <<>>),
      Raises("SyntaxError", <<"invalid", "syntax">>),
      Raises("OSError", <<"cannot", "read">>) }

\* A verdict (success, logs), or an exception leaving run_tests.
Verdict(success, logs) == [raised |-> FALSE, success |-> success, logs |-> logs]
Escapes(msg) == [raised |-> TRUE, success |-> FALSE, logs |-> msg]

TIMED_OUT == <<"Tests", "timed", "out">>

\* The syntax check with only its `except SyntaxError` handler
_fallback_syntax_check_read_error_escapes(file_path, syn) ==
    CASE syn.kind = "ran" ->
            Verdict(TRUE, <<"No", "unit", "tests", "found,", "but",
                            basename(file_path).stem \o basename(file_path).ext, "has", "valid",
                            "Python", "syntax.">>)
      [] syn.kind = "SyntaxError" ->
            Verdict(FALSE, <<"Syntax", "Error:">> \o syn.stderr)
      [] OTHER -> Escapes(syn.stderr)

\* Judge._fallback_syntax_check
_fallback_syntax_check(file_path, syn) ==
    CASE syn.kind = "ran" ->
            Verdict(TRUE, <<"No", "unit", "tests", "found,", "but",
                            basename(file_path).stem \o basename(file_path).ext, "has", "valid",
                            "Python", "syntax.">>)
      [] syn.kind = "SyntaxError" ->
            Verdict(FALSE, <<"Syntax", "Error:">> \o syn.stderr)
      [] OTHER ->
            Verdict(FALSE, <<"Error", "checking", "file:">> \o syn.stderr)

\* _run_test_file without its handlers for TimeoutExpired
_run_test_file_timeout_escapes(test_file, p1, p2) ==
    CASE p1.kind = "ran" ->
            Verdict(p1.returncode = 0, p1.stdout \o p1.stderr)
      [] p1.kind = "FileNotFoundError" ->
            ( CASE p2.kind = "ran" ->
                      Verdict(p2.returncode = 0, p2.stdout \o p2.stderr)
                [] OTHER ->
                      Verdict(FALSE, <<"Failed", "to", "run", "tests:">> \o p2.stderr) )
      [] OTHER -> Escapes(p1.stderr)

\* _run_test_file failing a harness run whose transcript has a zero-tests
\* marker, whatever the exit code
_run_test_file_fails_zero_tests(test_file, p1, p2) ==
    CASE p1.kind = "ran" ->
            Verdict(p1.returncode = 0
                      /\ ~Contains(lower(p1.stdout \o p1.stderr), <<"collected", "0", "items">>),
                    p1.stdout \o p1.stderr)
      [] p1.kind = "TimeoutExpired" -> Verdict(FALSE, TIMED_OUT)
      [] p1.kind = "FileNotFoundError" ->
            ( CASE p2.kind = "ran" ->
                      Verdict(p2.returncode = 0
                                /\ ~Contains(p2.stdout \o p2.stderr, <<"Ran", "0", "tests">>),
                              p2.stdout \o p2.stderr)
                [] p2.kind = "TimeoutExpired" -> Verdict(FALSE, TIMED_OUT)
                [] OTHER ->
                      Verdict(FALSE, <<"Failed", "to", "run", "tests:">> \o p2.stderr) )
      [] OTHER -> Escapes(p1.stderr)

\* Judge._run_test_file: pytest on the harness, unittest when pytest is
\* not installed.  p1 and p2 are what the two subprocess.run calls do.
_run_test_file(test_file, p1, p2) ==
    CASE p1.kind = "ran" ->
            Verdict(p1.returncode = 0, p1.stdout \o p1.stderr)
      [] p1.kind = "TimeoutExpired" -> Verdict(FALSE, TIMED_OUT)
      [] p1.kind = "FileNotFoundError" ->
            ( CASE p2.kind = "ran" ->
                      Verdict(p2.returncode = 0, p2.stdout \o p2.stderr)
                [] p2.kind = "TimeoutExpired" -> Verdict(FALSE, TIMED_OUT)
                [] OTHER ->
                      Verdict(FALSE, <<"Failed", "to", "run", "tests:">> \o p2.stderr) )
      [] OTHER -> Escapes(p1.stderr)

\* Discovery that trusts the runner's exit code and never looks for the
\* zero-tests markers
_run_pytest_or_unittest_trusts_exit_code(directory, file_path, p1, p2, syn) ==
    CASE p1.kind = "ran" -> Verdict(p1.returncode = 0, p1.stdout \o p1.stderr)
      [] p1.kind = "TimeoutExpired" -> Verdict(FALSE, TIMED_OUT)
      [] p1.kind = "FileNotFoundError" ->
            ( CASE p2.kind = "ran" ->
                      Verdict(p2.returncode = 0, p2.stdout \o p2.stderr)
                [] p2.kind = "TimeoutExpired" -> Verdict(FALSE, TIMED_OUT)
                [] OTHER -> _fallback_syntax_check(file_path, syn) )
      [] OTHER -> Escapes(p1.stderr)

\* Discovery reporting a failure when unittest cannot be started, the way
\* _run_test_file does
_run_pytest_or_unittest_fails_without_runner(directory, file_path, p1, p2, syn) ==
    CASE p1.kind = "ran" ->
            LET test_output == p1.stdout \o p1.stderr
            IN  IF Contains(lower(test_output), <<"no", "tests", "ran">>)
                   \/ Contains(lower(test_output), <<"collected", "0", "items">>)
                THEN _fallback_syntax_check(file_path, syn)
                ELSE Verdict(p1.returncode = 0, test_output)
      [] p1.kind = "TimeoutExpired" -> Verdict(FALSE, TIMED_OUT)
      [] p1.kind = "FileNotFoundError" ->
            ( CASE p2.kind = "ran" ->
                      LET test_output == p2.stdout \o p2.stderr
                      IN  IF Contains(test_output, <<"Ran", "0", "tests">>)
                          THEN _fallback_syntax_check(file_path, syn)
                          ELSE Verdict(p2.returncode = 0, test_output)
                [] p2.kind = "TimeoutExpired" -> Verdict(FALSE, TIMED_OUT)
                [] OTHER ->
                      Verdict(FALSE, <<"Failed", "to", "run", "tests:">> \o p2.stderr) )
      [] OTHER -> Escapes(p1.stderr)

\* Judge._run_pytest_or_unittest: discovery on the directory.
_run_pytest_or_unittest(directory, file_path, p1, p2, syn) ==
    CASE p1.kind = "ran" ->
            LET test_output == p1.stdout \o p1.stderr
            IN  IF Contains(lower(test_output), <<"no", "tests", "ran">>)
                   \/ Contains(lower(test_output), <<"collected", "0", "items">>)
                THEN _fallback_syntax_check(file_path, syn)
                ELSE Verdict(p1.returncode = 0, test_output)
      [] p1.kind = "TimeoutExpired" -> Verdict(FALSE, TIMED_OUT)
      [] p1.kind = "FileNotFoundError" ->
            ( CASE p2.kind = "ran" ->
                      LET test_output == p2.stdout \o p2.stderr
                      IN  IF Contains(test_output, <<"Ran", "0", "tests">>)
                          THEN _fallback_syntax_check(file_path, syn)
                          ELSE Verdict(p2.returncode = 0, test_output)
                [] p2.kind = "TimeoutExpired" -> Verdict(FALSE, TIMED_OUT)
                [] OTHER -> _fallback_syntax_check(file_path, syn) )
      [] OTHER -> Escapes(p1.stderr)

\* The first conventional location that exists on disk, NoPath when none.
FirstExisting(patterns, files) ==
    LET hits == { i \in 1..Len(patterns) : patterns[i] \in files }
    IN  IF hits = {} THEN NoPath
        ELSE patterns[CHOOSE i \in hits : \A j \in hits : i <= j]

\* Judge.run_tests
run_tests(file_path, files, p1, p2, syn) ==
    LET directory == dirname(file_path)
        test_file == FirstExisting(test_patterns(file_path), files)
    IN  IF test_file = NoPath
        THEN _run_pytest_or_unittest(directory, file_path, p1, p2, syn)
        ELSE _run_test_file(test_file, p1, p2)

\* Judge.run_tests: what the runner is started on, the harness file found
\* by the search or, when there is none, the artifact's directory.
runner_target(file_path, files) ==
    LET test_file == FirstExisting(test_patterns(file_path), files)
    IN  IF test_file = NoPath
        THEN [layer |-> "discovery", path |-> Join(dirname(file_path), NoPath.name)]
        ELSE [layer |-> "harness", path |-> test_file]

\* A call that is not made: the second runner is started only when the
\* first raised FileNotFoundError, and the artifact is parsed only when no
\* harness file was found.
NotRun == Raises("NotRun", <<>>)

\* Both runners started whatever the first one did
runners_started_always_both(p1) == << "pytest", "unittest" >>

\* _run_test_file and _run_pytest_or_unittest: the runners started, given
\* what the first did.  Only `except FileNotFoundError: pass` goes on to
\* the second try block; every other path returns or raises.
runners_started(p1) ==
    IF p1.kind = "FileNotFoundError" THEN << "pytest", "unittest" >>
    ELSE << "pytest" >>

SecondRun(p1) ==
    IF Len(runners_started(p1)) = 2 THEN UnittestOutcomes ELSE { NotRun }
ParseRun(file_path, files) ==
    IF FirstExisting(test_patterns(file_path), files) = NoPath
    THEN SyntaxOutcomes ELSE { NotRun }

\* ------------------------------------------------------------ agent state
\* The plan: None, or the dict Auditor.analyze returns.  analyze always
\* sets plan["file"] = file_path, so a returned plan is never empty; gen is
\* the iteration whose analysis produced it (the dict's identity).
PlanNone == [kind |-> "None", file |-> NoPath, gen |-> 0]
PlanDict(file_path, gen) == [kind |-> "dict", file |-> file_path, gen |-> gen]
PlanTruthy(plan) == plan.kind = "dict"

\* str(e) of the exceptions a capability raises.
ExcMsgs == { <<>>, <<"boom">> }

\* What a capability call does: return a value or raise.
Returns(v) == [raised |-> FALSE, value |-> v, msg |-> <<>>]
Throws(msg, novalue) == [raised |-> TRUE, value |-> novalue, msg |-> msg]

\* Auditor.analyze leaving in the plan the "file" the model answered with,
\* which may name any artifact of the directory
AnalyzeOutcomes_keeps_answered_file(file_path, gen) ==
    { Returns(PlanDict(Join(TARGET_DIR, FileName(Stems[k])), gen)) : k \in 1..2 }
        \cup { Throws(m, PlanNone) : m \in ExcMsgs }

\* Auditor.analyze: the plan for file_path, or an exception
\* Auditor.analyze that may also return an empty plan without raising
AnalyzeOutcomes_may_return_empty(file_path, gen) ==
    { Returns(PlanDict(file_path, gen)), Returns(PlanNone) }
        \cup { Throws(m, PlanNone) : m \in ExcMsgs }

AnalyzeOutcomes(file_path, gen) ==
    { Returns(PlanDict(file_path, gen)) }
        \cup { Throws(m, PlanNone) : m \in ExcMsgs }

\* Tester.generate_tests: the path of the harness it wrote, or an exception
GenerateTestsOutcomes(file_path) ==
    { Returns(test_file_path(file_path)) }
        \cup { Throws(m, NoPath) : m \in ExcMsgs }

\* Fixer.apply_fix: the file it reads and then overwrites
apply_fix_target(plan) == plan.file

\* Fixer.apply_fix overwrites the file last: it has when the call returns,
\* and it may or may not have when the call raises (open(.., 'w') truncates
\* before write).
Overwrites(r) == IF r.raised THEN { FALSE, TRUE } ELSE { TRUE }

\* Fixer.apply_fix: returns the plan, or an exception
ApplyFixOutcomes(plan) ==
    { Returns(plan) } \cup { Throws(m, PlanNone) : m \in ExcMsgs }

TESTS_FAILED == <<"Tests", "failed">>

\* process_file: initial_state
initial_state(file_path, max_iter_arg) ==
    [ file_path |-> file_path,
      plan      |-> PlanNone,
      test_file |-> NoPath,
      iteration |-> 1,
      max_iter  |-> max_iter_arg,
      success   |-> FALSE,
      test_logs |-> <<>>,
      error     |-> None ]

\* process_file: recursion_limit
\* A recursion limit of four nodes per iteration and no buffer
recursion_limit_four_per_iteration(max_iter_arg) == max_iter_arg * 4

recursion_limit(max_iter_arg) == (max_iter_arg * 5) + RECURSION_LIMIT_BUFFER

\* auditor_node; r is what auditor.analyze did
\* auditor_node leaving the plan of the state in place when analyze raises
auditor_node_keeps_plan_on_failure(s, r) ==
    IF ~r.raised
    THEN [s EXCEPT !.plan = r.value, !.error = None]
    ELSE [s EXCEPT !.error = <<"Auditor", "failed:">> \o r.msg,
                   !.success = FALSE]

auditor_node(s, r) ==
    IF ~r.raised
    THEN [s EXCEPT !.plan = r.value, !.error = None]
    ELSE [s EXCEPT !.plan = PlanNone,
                   !.error = <<"Auditor", "failed:">> \o r.msg,
                   !.success = FALSE]

\* judge_node without its guard: it runs the tests whatever the error field
judge_skips_never(s) == FALSE

\* tester_node and fixer_node: the guard that skips the stage
tester_skips(s) == Truthy(s.error) \/ ~PlanTruthy(s.plan)
fixer_skips(s) == Truthy(s.error) \/ ~PlanTruthy(s.plan)
\* judge_node: the guard that skips the stage
judge_skips(s) == Truthy(s.error)

\* tester_node treating a generate_tests failure like the other stages do
tester_node_propagates(s, r) ==
    IF tester_skips(s) THEN s
    ELSE IF ~r.raised
    THEN [s EXCEPT !.test_file = r.value, !.error = None]
    ELSE [s EXCEPT !.test_file = NoPath,
                   !.error = <<"Tester", "failed:">> \o r.msg,
                   !.success = FALSE]

\* tester_node; r is what tester.generate_tests did
tester_node(s, r) ==
    IF tester_skips(s) THEN s
    ELSE IF ~r.raised
    THEN [s EXCEPT !.test_file = r.value, !.error = None]
    ELSE [s EXCEPT !.test_file = NoPath, !.error = None]

\* fixer_node; r is what fixer.apply_fix did
\* fixer_node recording its failure in the transcript, the way judge_node
\* does
fixer_node_logs_failure(s, r) ==
    IF fixer_skips(s) THEN s
    ELSE IF ~r.raised
    THEN [s EXCEPT !.error = None]
    ELSE [s EXCEPT !.error = <<"Fixer", "failed:">> \o r.msg,
                   !.test_logs = <<"Fixer", "failed:">> \o r.msg,
                   !.success = FALSE]

fixer_node(s, r) ==
    IF fixer_skips(s) THEN s
    ELSE IF ~r.raised
    THEN [s EXCEPT !.error = None]
    ELSE [s EXCEPT !.error = <<"Fixer", "failed:">> \o r.msg,
                   !.success = FALSE]

\* judge_node leaving the error field null when the tests fail
judge_node_no_sentinel(s, v) ==
    IF judge_skips(s) THEN s
    ELSE IF ~v.raised
    THEN [s EXCEPT !.success = v.success, !.test_logs = v.logs, !.error = None]
    ELSE LET error_msg == <<"Judge", "failed:">> \o v.logs
         IN  [s EXCEPT !.success = FALSE,
                       !.test_logs = error_msg,
                       !.error = error_msg]

\* judge_node clearing the error field when it skips
judge_node_skip_clears_error(s, v) ==
    IF judge_skips(s) THEN [s EXCEPT !.error = None]
    ELSE IF ~v.raised
    THEN [s EXCEPT !.success = v.success,
                   !.test_logs = v.logs,
                   !.error = IF v.success THEN None ELSE TESTS_FAILED]
    ELSE LET error_msg == <<"Judge", "failed:">> \o v.logs
         IN  [s EXCEPT !.success = FALSE,
                       !.test_logs = error_msg,
                       !.error = error_msg]

\* judge_node; v is what judge.run_tests did
judge_node(s, v) ==
    IF judge_skips(s) THEN s
    ELSE IF ~v.raised
    THEN [s EXCEPT !.success = v.success,
                   !.test_logs = v.logs,
                   !.error = IF v.success THEN None ELSE TESTS_FAILED]
    ELSE LET error_msg == <<"Judge", "failed:">> \o v.logs
         IN  [s EXCEPT !.success = FALSE,
                       !.test_logs = error_msg,
                       !.error = error_msg]

\* should_retry without its first test: success does not end the run
should_retry_ignores_success(s) ==
    IF s.iteration >= s.max_iter THEN "end"
    ELSE IF Truthy(s.error) /\ s.error # TESTS_FAILED THEN "end"
    ELSE "retry"

\* should_retry comparing with > : one iteration too many
should_retry_off_by_one(s) ==
    IF s.success THEN "end"
    ELSE IF s.iteration > s.max_iter THEN "end"
    ELSE IF Truthy(s.error) /\ s.error # TESTS_FAILED THEN "end"
    ELSE "retry"

\* should_retry without the fatal-error test
should_retry_retries_fatal(s) ==
    IF s.success THEN "end"
    ELSE IF s.iteration >= s.max_iter THEN "end"
    ELSE "retry"

\* should_retry retrying on the sentinel only
should_retry_sentinel_only(s) ==
    IF s.success THEN "end"
    ELSE IF s.iteration >= s.max_iter THEN "end"
    ELSE IF s.error = TESTS_FAILED THEN "retry"
    ELSE "end"

\* should_retry
should_retry(s) ==
    IF s.success THEN "end"
    ELSE IF s.iteration >= s.max_iter THEN "end"
    ELSE IF Truthy(s.error) /\ s.error # TESTS_FAILED THEN "end"
    ELSE "retry"

\* increment_iteration forgetting the increment
increment_iteration_stuck(s) == [s EXCEPT !.error = None]

\* increment_iteration starting the new iteration from a clean slate
increment_iteration_clears_plan(s) ==
    [s EXCEPT !.iteration = @ + 1, !.error = None,
              !.plan = PlanNone, !.test_file = NoPath]

\* increment_iteration
increment_iteration(s) == [s EXCEPT !.iteration = @ + 1, !.error = None]

\* build_workflow: the conditional edge out of judge
JudgeEdge(s) == IF should_retry(s) = "retry" THEN "increment" ELSE "END"

\* ------------------------------------------------------------------ state
VARIABLES
    py_files,     \* main: the artifacts discovered, in order
    max_iter,     \* main: args.max_iter
    disk,         \* the harness files that exist on disk
    pc,           \* main: "start", "loop", "invoke", "exited"
    i,            \* main: index of the artifact being processed
    results,      \* main: results, a sequence of <<file_path, success>>
    exit_code,    \* the status given to sys.exit, -1 while running
    state,        \* the AgentState of the run in progress
    node,         \* the graph node to execute next; "END"; "raised"
    steps,        \* graph nodes executed in this run
    calls,        \* history: capability calls made in this run, by stage
    iterCalls,    \* history: capability calls made in this iteration
    raisedAt,     \* history: the first Planner/Mutator/Verifier exception
    harnessFailed,\* history: generate_tests raised in this iteration
    passedAt,     \* history: the Verify that returned passed = true
    finals,       \* history: how each finished run ended
    judged,       \* history: what the runners did in this iteration's Verify
    written,      \* history: the files apply_fix has overwritten in this run
    generated,    \* history: the harness files generate_tests wrote in this run
    stop_requested \* environment: the iteration in which a stop was requested, 0 when none

vars == << py_files, max_iter, disk, pc, i, results, exit_code, state, node,
           steps, calls, iterCalls, raisedAt, harnessFailed, passedAt, finals,
           judged, written, generated, stop_requested >>

mainVars == << py_files, max_iter, stop_requested, pc, i, results, exit_code, finals >>

Stages == { "auditor", "tester", "fixer", "judge" }
Nodes == Stages \cup { "increment" }
NoCalls == [st \in Stages |-> 0]
Called(c, st) == [c EXCEPT ![st] = Bump(@)]
NoEvent == [stage |-> "none", iteration |-> 0, calls |-> NoCalls]
Event(st, iteration, c) == [stage |-> st, iteration |-> iteration, calls |-> c]
\* What judge.run_tests was given by the host (the two runner processes and
\* the parse of the artifact) and what it returned; made is FALSE until the
\* Verify of the iteration is called.
NoJudged ==
    [made |-> FALSE, p1 |-> NotRun, p2 |-> NotRun, syn |-> NotRun,
     v |-> Escapes(<<>>)]
Judged(p1, p2, syn, v) ==
    [made |-> TRUE, p1 |-> p1, p2 |-> p2, syn |-> syn, v |-> v]

\* main: --max_iter is any int.  The values tried: 0..hi, and the largest
\* one for which recursion_limit is below 1.
MaxIterValues(hi) == { -(RECURSION_LIMIT_BUFFER \div 5) } \cup (0..hi)

\* discover_python_files: n artifacts of the target directory
Discovered(n) == [k \in 1..n |-> Join(TARGET_DIR, FileName(Stems[k]))]

\* Where a harness may lie beforehand: the locations run_tests searches
\* and, sixth, the _test-suffix file in tests/ at the parent's level, which
\* the list of run_tests lacks.
SixLocations(file_path) ==
    test_patterns(file_path)
        \o << Join(Append(ParentDir(dirname(file_path)), "tests"),
                   TestSuffixed(splitext0(basename(file_path)))) >>

\* The harness files already on disk: for every artifact, the conventional
\* locations whose index is in layout.
PreExisting(files, layout) ==
    { SixLocations(files[k])[j] : k \in 1..Len(files), j \in layout }

\* The layouts tried: no harness beforehand, one where the Tester writes
\* its own (location 1), one at a location only the search reaches.
Layouts == { {}, {1}, {4} }

\* The state when main starts, for at most nmax artifacts.
InitWith(nmax, iters, layouts) ==
    /\ \E n \in 0..nmax : py_files = Discovered(n)
    /\ max_iter \in iters
    /\ \E layout \in layouts : disk = PreExisting(py_files, layout)
    /\ pc = "start"
    /\ i = 0
    /\ results = <<>>
    /\ exit_code = -1
    /\ state = initial_state(NoPath, 0)
    /\ node = "idle"
    /\ steps = 0
    /\ calls = NoCalls
    /\ iterCalls = NoCalls
    /\ raisedAt = NoEvent
    /\ harnessFailed = FALSE
    /\ passedAt = NoEvent
    /\ finals = <<>>
    /\ judged = NoJudged
    /\ written = {}
    /\ generated = {}
    /\ stop_requested = 0

Init == InitWith(MaxFiles, MaxIterValues(MaxIterBound), Layouts)

\* Longer batches of shorter runs, every artifact with a harness beside it.
BatchInit == InitWith(BatchFiles, MaxIterValues(BatchMaxIter), { {1} })

\* ---------------------------------------------------------- graph actions
\* workflow.invoke executes a node only while the recursion limit allows.
MayStep(n) == pc = "invoke" /\ node = n /\ steps < recursion_limit(state.max_iter)

\* auditor_node
Auditor ==
    /\ MayStep("auditor")
    /\ \E r \in AnalyzeOutcomes(state.file_path, state.iteration) :
          /\ state' = auditor_node(state, r)
          /\ raisedAt' = IF r.raised /\ raisedAt.stage = "none"
                         THEN Event("auditor", state.iteration, Called(calls, "auditor"))
                         ELSE raisedAt
    /\ calls' = Called(calls, "auditor")
    /\ iterCalls' = Called(iterCalls, "auditor")
    /\ node' = "tester"
    /\ steps' = steps + 1
    /\ UNCHANGED << mainVars, disk, harnessFailed, passedAt, judged, written, generated >>

\* tester_node: generate_tests writes test_<filename> beside the artifact
Tester ==
    /\ MayStep("tester")
    /\ IF tester_skips(state)
       THEN /\ state' = tester_node(state, Throws(<<>>, NoPath))
            /\ UNCHANGED << disk, calls, iterCalls, harnessFailed, generated >>
       ELSE /\ \E r \in GenerateTestsOutcomes(state.file_path) :
                  /\ state' = tester_node(state, r)
                  /\ disk' = IF r.raised THEN disk ELSE disk \cup { r.value }
                  /\ generated' = IF r.raised THEN generated
                                  ELSE generated \cup { r.value }
                  /\ harnessFailed' = r.raised
            /\ calls' = Called(calls, "tester")
            /\ iterCalls' = Called(iterCalls, "tester")
    /\ node' = "fixer"
    /\ steps' = steps + 1
    /\ UNCHANGED << mainVars, raisedAt, passedAt, judged, written >>

\* fixer_node
Fixer ==
    /\ MayStep("fixer")
    /\ IF fixer_skips(state)
       THEN /\ state' = fixer_node(state, Throws(<<>>, PlanNone))
            /\ UNCHANGED << calls, iterCalls, raisedAt, written >>
       ELSE /\ \E r \in ApplyFixOutcomes(state.plan) :
                  /\ state' = fixer_node(state, r)
                  /\ \E w \in Overwrites(r) :
                        written' = IF w THEN written \cup { apply_fix_target(state.plan) }
                                   ELSE written
                  /\ raisedAt' = IF r.raised /\ raisedAt.stage = "none"
                                 THEN Event("fixer", state.iteration, Called(calls, "fixer"))
                                 ELSE raisedAt
            /\ calls' = Called(calls, "fixer")
            /\ iterCalls' = Called(iterCalls, "fixer")
    /\ node' = "judge"
    /\ steps' = steps + 1
    /\ UNCHANGED << mainVars, disk, harnessFailed, passedAt, judged, generated >>

\* judge_node, then the conditional edge should_retry
Judge ==
    /\ MayStep("judge")
    /\ IF judge_skips(state)
       THEN /\ state' = judge_node(state, Escapes(<<>>))
            /\ UNCHANGED << calls, iterCalls, raisedAt, passedAt, judged >>
       ELSE /\ \E p1 \in PytestOutcomes :
               \E p2 \in SecondRun(p1), syn \in ParseRun(state.file_path, disk) :
               LET v == run_tests(state.file_path, disk, p1, p2, syn) IN
                  /\ state' = judge_node(state, v)
                  /\ raisedAt' = IF v.raised /\ raisedAt.stage = "none"
                                 THEN Event("judge", state.iteration, Called(calls, "judge"))
                                 ELSE raisedAt
                  /\ passedAt' = IF ~v.raised /\ v.success /\ passedAt.stage = "none"
                                 THEN Event("judge", state.iteration, Called(calls, "judge"))
                                 ELSE passedAt
                  /\ judged' = Judged(p1, p2, syn, v)
            /\ calls' = Called(calls, "judge")
            /\ iterCalls' = Called(iterCalls, "judge")
    /\ node' = JudgeEdge(state')
    /\ steps' = steps + 1
    /\ UNCHANGED << mainVars, disk, harnessFailed, written, generated >>

\* The graph with the edge out of increment leading to tester: a retry
\* that does not plan again
Increment_to_tester ==
    /\ MayStep("increment")
    /\ state' = increment_iteration(state)
    /\ node' = "tester"
    /\ steps' = steps + 1
    /\ iterCalls' = NoCalls
    /\ harnessFailed' = FALSE
    /\ judged' = NoJudged
    /\ UNCHANGED << mainVars, disk, calls, raisedAt, passedAt, written, generated >>

\* increment_iteration, then the edge back to auditor
Increment ==
    /\ MayStep("increment")
    /\ state' = increment_iteration(state)
    /\ node' = "auditor"
    /\ steps' = steps + 1
    /\ iterCalls' = NoCalls
    /\ harnessFailed' = FALSE
    /\ judged' = NoJudged
    /\ UNCHANGED << mainVars, disk, calls, raisedAt, passedAt, written, generated >>

\* workflow.invoke raises: the recursion limit is below 1, or is used up
\* before the graph reaches END
InvokeRaises ==
    /\ pc = "invoke"
    /\ node \in Nodes
    /\ steps >= recursion_limit(state.max_iter)
    /\ node' = "raised"
    /\ UNCHANGED << mainVars, disk, state, steps, calls, iterCalls, raisedAt,
                    harnessFailed, passedAt, judged, written, generated >>

\* ------------------------------------------------------------ main actions
\* The three terminal outcomes of a run, read off its final AgentState.
IsSuccess(s) == s.success /\ s.error = None
IsIncomplete(s) ==
    ~s.success /\ s.error = TESTS_FAILED /\ s.iteration >= s.max_iter
IsFatal(s) == ~s.success /\ Truthy(s.error) /\ s.error # TESTS_FAILED
Kind(s) ==
    CASE IsSuccess(s) -> "Success"
      [] IsIncomplete(s) -> "Incomplete"
      [] IsFatal(s) -> "Fatal"
      [] OTHER -> "Unclassified"

\* process_file reporting success whenever workflow.invoke returned
process_file_result_any_return(ended, final_state) == ended = "END"

\* process_file: the value returned once workflow.invoke has returned the
\* final state (ended = "END") or has raised (ended = "raised")
process_file_result(ended, final_state) ==
    IF ended = "END" THEN final_state.success ELSE FALSE

\* main: successful = sum(1 for _, ok in results if ok)
successful(res) == Cardinality({ k \in 1..Len(res) : res[k][2] })

\* main exiting 0 as soon as one artifact succeeded
exit_status_any_success(res) == IF successful(res) >= 1 THEN 0 ELSE 1

\* main: sys.exit(0 if successful == total else 1)
exit_status(res) == IF successful(res) = Len(res) THEN 0 ELSE 1

\* main, up to the loop: no artifact means sys.exit(0)
Main ==
    /\ pc = "start"
    /\ IF py_files = <<>>
       THEN pc' = "exited" /\ exit_code' = 0 /\ i' = i
       ELSE pc' = "loop" /\ exit_code' = exit_code /\ i' = 1
    /\ UNCHANGED << py_files, max_iter, stop_requested, disk, results, state, node, steps,
                    calls, iterCalls, raisedAt, harnessFailed, passedAt, finals,
                    judged, written, generated >>

\* process_file, up to workflow.invoke
\* process_file starting a run with the success flag of the previous run
ProcessFile_inherits_outcome ==
    /\ pc = "loop"
    /\ i <= Len(py_files)
    /\ state' = [ initial_state(py_files[i], max_iter) EXCEPT
                    !.success = finals # <<>> /\ finals[Len(finals)].success ]
    /\ node' = "auditor"
    /\ steps' = 0
    /\ pc' = "invoke"
    /\ calls' = NoCalls
    /\ iterCalls' = NoCalls
    /\ raisedAt' = NoEvent
    /\ harnessFailed' = FALSE
    /\ passedAt' = NoEvent
    /\ judged' = NoJudged
    /\ written' = {}
    /\ generated' = {}
    /\ UNCHANGED << py_files, max_iter, stop_requested, disk, i, results, exit_code, finals >>

\* main's loop body, first half: process_file builds initial_state and
\* calls workflow.invoke.
ProcessFile ==
    /\ pc = "loop"
    /\ i <= Len(py_files)
    /\ state' = initial_state(py_files[i], max_iter)
    /\ node' = "auditor"
    /\ steps' = 0
    /\ pc' = "invoke"
    /\ calls' = NoCalls
    /\ iterCalls' = NoCalls
    /\ raisedAt' = NoEvent
    /\ harnessFailed' = FALSE
    /\ passedAt' = NoEvent
    /\ judged' = NoJudged
    /\ written' = {}
    /\ generated' = {}
    /\ UNCHANGED << py_files, max_iter, stop_requested, disk, i, results, exit_code, finals >>

\* main leaving the loop at the first artifact that did not succeed
ProcessFileReturn_aborts ==
    /\ pc = "invoke"
    /\ node \in { "END", "raised" }
    /\ results' = Append(results, << py_files[i], process_file_result(node, state) >>)
    /\ finals' = Append(finals, [ file |-> state.file_path,
                                  success |-> node = "END" /\ state.success,
                                  kind |-> IF node = "END" THEN Kind(state)
                                           ELSE "Exception" ])
    /\ i' = IF process_file_result(node, state) THEN i + 1 ELSE Len(py_files) + 1
    /\ pc' = "loop"
    /\ node' = "idle"
    /\ state' = initial_state(NoPath, 0)
    /\ steps' = 0
    /\ calls' = NoCalls
    /\ iterCalls' = NoCalls
    /\ raisedAt' = NoEvent
    /\ harnessFailed' = FALSE
    /\ passedAt' = NoEvent
    /\ judged' = NoJudged
    /\ written' = {}
    /\ generated' = {}
    /\ UNCHANGED << py_files, max_iter, stop_requested, disk, exit_code >>

\* process_file returns; main appends (file_path, success) to results.
\* The run's AgentState is local to process_file and is gone on return.
ProcessFileReturn ==
    /\ pc = "invoke"
    /\ node \in { "END", "raised" }
    /\ results' = Append(results, << py_files[i], process_file_result(node, state) >>)
    /\ finals' = Append(finals, [ file |-> state.file_path,
                                  success |-> node = "END" /\ state.success,
                                  kind |-> IF node = "END" THEN Kind(state)
                                           ELSE "Exception" ])
    /\ i' = i + 1
    /\ pc' = "loop"
    /\ node' = "idle"
    /\ state' = initial_state(NoPath, 0)
    /\ steps' = 0
    /\ calls' = NoCalls
    /\ iterCalls' = NoCalls
    /\ raisedAt' = NoEvent
    /\ harnessFailed' = FALSE
    /\ passedAt' = NoEvent
    /\ judged' = NoJudged
    /\ written' = {}
    /\ generated' = {}
    /\ UNCHANGED << py_files, max_iter, stop_requested, disk, exit_code >>

\* main: the summary and sys.exit
Summary ==
    /\ pc = "loop"
    /\ i > Len(py_files)
    /\ exit_code' = exit_status(results)
    /\ pc' = "exited"
    /\ UNCHANGED << py_files, max_iter, stop_requested, disk, i, results, state, node, steps,
                    calls, iterCalls, raisedAt, harnessFailed, passedAt, finals,
                    judged, written, generated >>

Next ==
    \/ Main
    \/ ProcessFile
    \/ Auditor
    \/ Tester
    \/ Fixer
    \/ Judge
    \/ Increment
    \/ InvokeRaises
    \/ ProcessFileReturn
    \/ Summary

Spec == Init /\ [][Next]_vars

\* Termination is a property of one run: batches of at most one artifact.
\* The program runs until it exits: a step that can be taken is taken.
FairInit == InitWith(1, MaxIterValues(MaxIterBound), Layouts)
FairSpec == FairInit /\ [][Next]_vars /\ WF_vars(Next)

BatchSpec == BatchInit /\ [][Next]_vars

\* The search on its own: one artifact, and harness files beforehand at
\* one or two of the conventional locations.
SearchLayouts == { l \in SUBSET (1..6) : Cardinality(l) \in { 1, 2 } }
SearchInit ==
    InitWith(1, { -(RECURSION_LIMIT_BUFFER \div 5), 2 }, SearchLayouts)
SearchSpec == SearchInit /\ [][Next]_vars

\* should_retry on its own, applied to every AgentState, reachable or not.
ErrorValues ==
    { None, <<>>, TESTS_FAILED, <<"Tests", "failed", "again">>,
      <<"Fixer", "failed:", "boom">>, <<"Judge", "failed:">> }
AgentStates ==
    LET f == Discovered(1)[1]
    IN  [ file_path : { f },
          plan      : { PlanNone, PlanDict(f, 1) },
          test_file : { NoPath, test_file_path(f) },
          iteration : 0..(MaxIterBound + 1),
          max_iter  : MaxIterValues(MaxIterBound),
          success   : BOOLEAN,
          test_logs : { <<>>, TIMED_OUT },
          error     : ErrorValues ]

RetryInit ==
    /\ py_files = Discovered(1)
    /\ max_iter \in MaxIterValues(MaxIterBound)
    /\ disk = {}
    /\ pc = "decide"
    /\ i = 1
    /\ results = <<>>
    /\ exit_code = -1
    /\ state \in { s \in AgentStates : s.max_iter = max_iter }
    /\ node = "judge"
    /\ steps = 0
    /\ calls = NoCalls
    /\ iterCalls = NoCalls
    /\ raisedAt = NoEvent
    /\ harnessFailed = FALSE
    /\ passedAt = NoEvent
    /\ finals = <<>>
    /\ judged = NoJudged
    /\ written = {}
    /\ generated = {}
    /\ stop_requested = 0

\* build_workflow: the conditional edge, should_retry applied to the state
Decide ==
    /\ pc = "decide"
    /\ node = "judge"
    /\ node' = JudgeEdge(state)
    /\ pc' = "decided"
    /\ UNCHANGED << py_files, max_iter, stop_requested, disk, i, results, exit_code, state, steps,
                    calls, iterCalls, raisedAt, harnessFailed, passedAt, finals,
                    judged, written, generated >>

RetrySpec == RetryInit /\ [][Decide]_vars

\* ================================================================== claims
InRun == pc = "invoke"
Ended == InRun /\ node = "END"

\* C1. In every state of every run in which a stage has executed, for
\* every --max_iter, the iteration counter is at least 1 and never exceeds
\* max_iter.
C1_IterationWithinMax ==
    (InRun /\ steps > 0) =>
        (1 <= state.iteration /\ state.iteration <= state.max_iter)

\* C2. If Verify returns passed = true in iteration k, the run ends in
\* Success in iteration k: the graph is at END with success true and error
\* null, the iteration counter is still k, and no capability has been called
\* since that Verify.
C2_PassEndsRun ==
    (InRun /\ passedAt.stage # "none") =>
        /\ node = "END"
        /\ IsSuccess(state)
        /\ process_file_result(node, state)
        /\ state.iteration = passedAt.iteration
        /\ calls = passedAt.calls

\* C2 witness: a Verify passed in a second iteration and the run has ended.
C2_Witness ==
    Ended /\ passedAt.stage = "judge" /\ passedAt.iteration = 2
          /\ state.max_iter = 3

\* C3. If the Planner or the Mutator raises in iteration k, no capability
\* is called afterwards, the iteration counter stays k (the increment node
\* and a new Planning are never reached), and the run ends fatal, with
\* that stage's message, even when k < max_iter.
C3_FatalStopsRun ==
    (InRun /\ raisedAt.stage \in { "auditor", "fixer" }) =>
        /\ calls = raisedAt.calls
        /\ state.iteration = raisedAt.iteration
        /\ node \in { "tester", "fixer", "judge", "END" }
        /\ IsFatal(state)
        /\ raisedAt.stage = "auditor" =>
              /\ iterCalls["tester"] = 0
              /\ iterCalls["fixer"] = 0
              /\ iterCalls["judge"] = 0
              /\ SubSeq(state.error, 1, 2) = <<"Auditor", "failed:">>
        /\ raisedAt.stage = "fixer" =>
              /\ iterCalls["judge"] = 0
              /\ SubSeq(state.error, 1, 2) = <<"Fixer", "failed:">>

\* C3 witness: the Mutator raised in iteration 2 with budget left, and the
\* run has ended.
C3_Witness ==
    Ended /\ raisedAt.stage = "fixer" /\ raisedAt.iteration = 2
          /\ state.max_iter = 3 /\ calls["judge"] = 1

\* C4 as stated. If generate_tests raises in an iteration, the error field
\* stays null and the Mutator and then the Verifier are both invoked in
\* that same iteration.
C4_HarnessFailureThenBoth ==
    (InRun /\ harnessFailed) =>
        /\ node = "fixer" => state.error = None
        /\ node \in { "judge", "increment", "END" } => iterCalls["fixer"] = 1
        /\ node \in { "increment", "END" } => iterCalls["judge"] = 1

\* C4 amended. If generate_tests raises in an iteration, the error field
\* stays null and the harness reference is absent, the Mutator is invoked
\* in that same iteration, and the Verifier is invoked in that iteration
\* unless the Mutator itself raises; a run that ends fatal in that
\* iteration does so with the Mutator's or the Verifier's message.
C4_HarnessFailureAbsorbed ==
    (InRun /\ harnessFailed) =>
        /\ node = "fixer" =>
              (state.error = None /\ state.test_file = NoPath /\ ~fixer_skips(state))
        /\ node \in { "judge", "increment", "END" } => iterCalls["fixer"] = 1
        /\ node \in { "increment", "END" } =>
              \/ iterCalls["judge"] = 1
              \/ raisedAt = Event("fixer", state.iteration, calls)
        /\ (node = "END" /\ IsFatal(state)) =>
              /\ raisedAt.stage \in { "fixer", "judge" }
              /\ raisedAt.iteration = state.iteration

\* C4 witness: generate_tests raised, and the Mutator and the Verifier have
\* both been invoked in that iteration, which is not the last.
C4_Witness ==
    InRun /\ harnessFailed /\ node = "increment"
          /\ iterCalls["fixer"] = 1 /\ iterCalls["judge"] = 1

\* C5. For max_iter = N >= 1, a run in which nothing raises and every
\* Verify returns passed = false ends IncompleteAfterMaxIterations in
\* iteration N after exactly N Verify, N Planner and N Mutator calls; and
\* no run ever makes more than N Verify calls.
C5_ExactlyNVerifies ==
    (InRun /\ state.max_iter >= 1) =>
        /\ calls["judge"] <= state.max_iter
        /\ node # "raised"
        /\ (node = "END" /\ raisedAt.stage = "none" /\ passedAt.stage = "none") =>
              /\ IsIncomplete(state)
              /\ state.iteration = state.max_iter
              /\ calls["judge"] = state.max_iter
              /\ calls["auditor"] = state.max_iter
              /\ calls["fixer"] = state.max_iter

\* C5 witness: max_iter = 3, three failed Verifies, the run has ended.
C5_Witness ==
    Ended /\ state.max_iter = 3 /\ raisedAt.stage = "none"
          /\ passedAt.stage = "none" /\ calls["judge"] = 3

\* C6. Whenever the retry decision is taken, a new iteration is started
\* only if the error is the retryable sentinel, left by a Verify of this
\* iteration that returned passed = false, and iteration < max_iter; any
\* other non-null error ends the run.
C6_OnlyRetryableRetries ==
    [][ (InRun /\ node = "judge") =>
          /\ node' = "increment" =>
                /\ state'.error = TESTS_FAILED
                /\ ~state'.success
                /\ state'.iteration < state'.max_iter
                /\ iterCalls'["judge"] = 1
                /\ raisedAt'.stage = "none"
          /\ (Truthy(state'.error) /\ state'.error # TESTS_FAILED) =>
                node' = "END" ]_vars

\* C6 witness: the Verifier raised in iteration 2 with budget left and the
\* run has ended instead of retrying.
C6_Witness ==
    Ended /\ raisedAt.stage = "judge" /\ raisedAt.iteration = 2
          /\ state.iteration = 2 /\ state.max_iter = 3

\* C7. Every run eventually reaches a terminal state, and it is the graph
\* reaching END: the cycle auditor -> tester -> fixer -> judge -> increment
\* cannot repeat until the recursion limit stops it.  The one run that
\* does not reach END is the one workflow.invoke refuses to start, its
\* recursion limit being below 1.
ReachedEnd ==
    InRun /\ (node = "END"
               \/ (node = "raised" /\ steps = 0
                     /\ recursion_limit(state.max_iter) < 1))
C7_RunTerminates == InRun ~> ReachedEnd

\* C7 witness: a run that used its whole budget of three iterations has
\* ended.
C7_Witness ==
    Ended /\ state.max_iter = 3 /\ state.iteration = 3 /\ calls["judge"] = 3

\* C8. Every final state is exactly one of Success, Incomplete, Fatal; none
\* has success false with a null error, none success true with an error.
C8_ExactlyOneOutcome ==
    Ended =>
        /\ Cardinality({ k \in { "Success", "Incomplete", "Fatal" } :
                           \/ k = "Success" /\ IsSuccess(state)
                           \/ k = "Incomplete" /\ IsIncomplete(state)
                           \/ k = "Fatal" /\ IsFatal(state) }) = 1
        /\ ~(~state.success /\ state.error = None)
        /\ ~(state.success /\ state.error # None)

\* C8 witness: a run has ended IncompleteAfterMaxIterations.
C8_Witness == Ended /\ IsIncomplete(state) /\ state.iteration = 2

C10_BatchCompletes ==
    /\ Len(results) = Len(finals)
    /\ Len(results) <= Len(py_files)
    /\ \A k \in 1..Len(results) :
          results[k][1] = py_files[k] /\ finals[k].file = py_files[k]
    /\ pc \in { "loop", "invoke" } =>
          (Len(results) = i - 1 /\ (InRun => state.file_path = py_files[i]))
    /\ pc = "exited" =>
          /\ Len(results) = Len(py_files)
          /\ exit_code \in { 0, 1 }
    /\ successful(results) = Cardinality({ k \in 1..Len(finals) : finals[k].success })

\* C10 witness: a batch of three has exited; the run of artifact #2 was
\* fatal, those of #1 and #3 ended in Incomplete and in Success.
C10_Witness ==
    /\ pc = "exited"
    /\ Len(py_files) = 3
    /\ Len(results) = 3
    /\ finals[1].kind = "Incomplete"
    /\ finals[2].kind = "Fatal"
    /\ finals[3].kind = "Success"

\* C11. Once main has gone through its batch and exited, the exit status is
\* 0 if and only if every processed artifact's run ended with
\* success = true (none at all included), and it is 1 otherwise.
C11_ExitZeroIffAllSucceeded ==
    pc = "exited" =>
        /\ Len(finals) = Len(py_files)
        /\ exit_code = 0 <=> (\A k \in 1..Len(finals) : finals[k].success)
        /\ exit_code = 1 <=> (\E k \in 1..Len(finals) : ~finals[k].success)

\* C11 witness: a batch of three has exited with status 1, two of its runs
\* having succeeded.
C11_Witness ==
    /\ pc = "exited"
    /\ Len(finals) = 3
    /\ exit_code = 1
    /\ Cardinality({ k \in 1..3 : finals[k].success }) = 2

\* The runner, started on a directory, reports that it collected no test:
\* pytest prints one of its two markers, unittest prints "Ran 0 tests".
ZeroTests(p1, p2) ==
    \/ /\ p1.kind = "ran"
       /\ \/ Contains(lower(p1.stdout \o p1.stderr), <<"no", "tests", "ran">>)
          \/ Contains(lower(p1.stdout \o p1.stderr), <<"collected", "0", "items">>)
    \/ /\ p1.kind = "FileNotFoundError"
       /\ p2.kind = "ran"
       /\ Contains(p2.stdout \o p2.stderr, <<"Ran", "0", "tests">>)

\* Neither runner could be started on the directory.
NoRunner(p1, p2) ==
    p1.kind = "FileNotFoundError" /\ p2.kind \notin { "ran", "TimeoutExpired" }

\* The verdict of the Verify of this iteration came from the syntax check.
FromSyntaxCheck ==
    judged.syn # NotRun
        /\ judged.v = _fallback_syntax_check(state.file_path, judged.syn)

\* C12. In every Verify, first applicable layer wins.  The harness the
\* HarnessGenerator returned for this iteration, when there is one, is the
\* file the runner is started on, whatever else lies at the conventional
\* locations; a harness at a conventional location is run in preference to
\* discovery, and then neither discovery nor the syntax check takes place;
\* a discovery that ran tests gives the verdict whatever the syntax check
\* would say; the syntax check gives the verdict only when there is no
\* harness file and discovery found no test or no runner.
C12_FirstLayerWins ==
    (InRun /\ judged.made) =>
        LET target == runner_target(state.file_path, disk)
            located == \E j \in 1..Len(test_patterns(state.file_path)) :
                          test_patterns(state.file_path)[j] \in disk
            p1 == judged.p1
            p2 == judged.p2
        IN  /\ state.test_file # NoPath =>
                  target = [layer |-> "harness", path |-> state.test_file]
            /\ located =>
                  /\ target.layer = "harness"
                  /\ target.path \in disk
                  /\ judged.syn = NotRun
                  /\ judged.v = _run_test_file(target.path, p1, p2)
            /\ (~located /\ p1.kind = "ran" /\ ~ZeroTests(p1, p2)) =>
                  judged.v = Verdict(p1.returncode = 0, p1.stdout \o p1.stderr)
            /\ (~located /\ p2.kind = "ran" /\ ~ZeroTests(p1, p2)) =>
                  judged.v = Verdict(p2.returncode = 0, p2.stdout \o p2.stderr)
            /\ FromSyntaxCheck =>
                  (~located /\ (ZeroTests(p1, p2) \/ NoRunner(p1, p2)))

\* C12 witness: the Verify ran the harness generated in this iteration while
\* another harness lay in tests/, a location searched later.
C12_Witness ==
    /\ InRun
    /\ judged.made
    /\ state.test_file # NoPath
    /\ test_patterns(state.file_path)[4] \in disk
    /\ judged.v.success

\* The transcript of a runner that ran says it collected or ran 0 tests.
ReportsZero(p) ==
    /\ p.kind = "ran"
    /\ \/ Contains(p.stdout \o p.stderr, <<"0", "items">>)
       \/ Contains(p.stdout \o p.stderr, <<"0", "tests">>)

\* The runner whose transcript discovery reads: pytest, or unittest when
\* pytest is not installed.
DiscoveryRun ==
    IF judged.p1.kind = "FileNotFoundError" THEN judged.p2 ELSE judged.p1

\* C13. When discovery (by pytest, or by unittest in its place) reports
\* zero tests, the verdict of the Verify is the one of the syntax check on
\* the artifact, whatever the runner's exit code: passed exactly when the
\* artifact parses, never the runner's own exit code or transcript.
C13_ZeroTestsFallsThrough ==
    ( /\ InRun
      /\ judged.made
      /\ runner_target(state.file_path, disk).layer = "discovery"
      /\ ReportsZero(DiscoveryRun) ) =>
        /\ FromSyntaxCheck
        /\ ~judged.v.raised
        /\ judged.v.success <=> (judged.syn.kind = "ran")
        /\ judged.v.logs # DiscoveryRun.stdout \o DiscoveryRun.stderr
        /\ state.success = judged.v.success
        /\ state.test_logs = judged.v.logs

\* C13 witness: unittest discovery ran 0 tests and exited with 0, the
\* artifact does not parse, and the Verify failed.
C13_Witness ==
    /\ InRun
    /\ judged.made
    /\ runner_target(state.file_path, disk).layer = "discovery"
    /\ judged.p1.kind = "FileNotFoundError"
    /\ ReportsZero(judged.p2)
    /\ judged.p2.returncode = 0
    /\ judged.syn.kind = "SyntaxError"
    /\ ~state.success

\* C14. An artifact that parses, no harness file at any searched location,
\* pytest and python both absent from the host: the Verify returns
\* passed = true with a transcript saying that no tests were found and
\* that the syntax is valid; it neither raises nor fails, and the run ends
\* in Success.
C14_NoRunnerValidSyntaxPasses ==
    ( /\ InRun
      /\ judged.made
      /\ \A j \in 1..Len(test_patterns(state.file_path)) :
             test_patterns(state.file_path)[j] \notin disk
      /\ judged.p1.kind = "FileNotFoundError"
      /\ judged.p2.kind = "FileNotFoundError"
      /\ judged.syn.kind = "ran" ) =>
        /\ ~judged.v.raised
        /\ judged.v.success
        /\ Contains(judged.v.logs, <<"No", "unit", "tests", "found,">>)
        /\ Contains(judged.v.logs, <<"has", "valid", "Python", "syntax.">>)
        /\ state.success
        /\ state.test_logs = judged.v.logs
        /\ state.error = None
        /\ node = "END"

\* C14 witness: that Verify, in a second iteration (the harness generator
\* raised in both, so no harness file exists).
C14_Witness ==
    /\ Ended
    /\ judged.made
    /\ state.iteration = 2
    /\ disk = {}
    /\ judged.p1.kind = "FileNotFoundError"
    /\ judged.p2.kind = "FileNotFoundError"
    /\ judged.syn.kind = "ran"
    /\ state.success

\* A runner started by the Verify of this iteration ran into its timeout.
RunnerTimedOut ==
    \/ judged.p1.kind = "TimeoutExpired"
    \/ judged.p1.kind = "FileNotFoundError" /\ judged.p2.kind = "TimeoutExpired"

\* C15. A timeout of any runner execution (on a harness file or in
\* discovery, pytest or unittest) gives a failing verdict whose transcript
\* carries the timeout marker and never an exception: the error is the
\* retryable sentinel, and the run goes on to another iteration exactly
\* when budget remains.
C15_TimeoutIsFailingVerdict ==
    (InRun /\ judged.made /\ RunnerTimedOut) =>
        /\ ~judged.v.raised
        /\ ~judged.v.success
        /\ Contains(judged.v.logs, <<"timed", "out">>)
        /\ ~state.success
        /\ state.test_logs = judged.v.logs
        /\ state.error = TESTS_FAILED
        /\ ~IsFatal(state)
        /\ raisedAt.stage = "none"
        /\ node = (IF state.iteration < state.max_iter THEN "increment" ELSE "END")

\* C15 witness: unittest, started on a located harness file because pytest
\* is not installed, timed out, and the run is about to retry.
C15_Witness ==
    /\ InRun
    /\ judged.made
    /\ runner_target(state.file_path, disk).layer = "harness"
    /\ judged.p1.kind = "FileNotFoundError"
    /\ judged.p2.kind = "TimeoutExpired"
    /\ node = "increment"

\* C16. When neither runner can be started (pytest and python both absent
\* from the host), the Verify neither raises nor returns a verdict about
\* the missing binary: with a harness file located or not, the verdict is
\* the one of the syntax check on the artifact.
C16_MissingRunnerFallsThrough ==
    ( /\ InRun
      /\ judged.made
      /\ judged.p1.kind = "FileNotFoundError"
      /\ judged.p2.kind = "FileNotFoundError" ) =>
        /\ ~judged.v.raised
        /\ \E syn \in SyntaxOutcomes :
              judged.v = _fallback_syntax_check(state.file_path, syn)

\* C17. A plan is never applied to another artifact than its own: whenever
\* the state of a run holds a plan, plan["file"] is the run's file_path,
\* and the only file apply_fix has overwritten in the run of an artifact is
\* that artifact, in every iteration and for every artifact of the batch.
C17_PlanTargetsOwnArtifact ==
    InRun =>
        /\ PlanTruthy(state.plan) =>
              (state.plan.file = state.file_path
                 /\ apply_fix_target(state.plan) = py_files[i])
        /\ state.file_path = py_files[i]
        /\ written \subseteq { py_files[i] }
        /\ (calls["fixer"] > 0 /\ raisedAt.stage # "fixer") => written = { py_files[i] }

\* C17 witness: in the run of the second artifact, apply_fix has been called
\* in a second iteration and has overwritten that artifact.
C17_Witness ==
    /\ InRun
    /\ i = 2
    /\ state.iteration = 2
    /\ iterCalls["fixer"] = 1
    /\ written = { py_files[2] }

\* The fixed order of the stages within an iteration.
Rank(st) ==
    CASE st = "auditor" -> 1 [] st = "tester" -> 2
      [] st = "fixer" -> 3 [] st = "judge" -> 4

\* C18. In every step of a run: a capability is called only by the node
\* the graph is at, one call per step; when a stage is called it has not
\* been called yet in this iteration, every stage before it in the order
\* Planning, HarnessGeneration, Mutating, Verifying has been called in
\* this iteration and has returned, and no stage after it has; and the
\* iteration changes only in the increment node, by +1, after the Verify
\* of the iteration has returned, no capability being called in that step.
C18_StagesSequential ==
    [][ (pc = "invoke" /\ pc' = "invoke") =>
          /\ \A st \in Stages :
                calls'[st] # calls[st] =>
                    /\ node = st
                    /\ calls'[st] = calls[st] + 1
                    /\ iterCalls[st] = 0
                    /\ iterCalls'[st] = 1
                    /\ \A o \in Stages \ { st } :
                          /\ calls'[o] = calls[o]
                          /\ Rank(o) < Rank(st) => iterCalls[o] = 1
                          /\ Rank(o) > Rank(st) => iterCalls[o] = 0
          /\ state'.iteration # state.iteration =>
                /\ node = "increment"
                /\ node' = "auditor"
                /\ iterCalls["judge"] = 1
                /\ judged.made
                /\ state'.iteration = state.iteration + 1
                /\ calls' = calls
                /\ iterCalls' = NoCalls ]_vars

\* C18 witness: the four stages have each been called once in a second
\* iteration.
C18_Witness ==
    /\ InRun
    /\ state.iteration = 2
    /\ \A st \in Stages : iterCalls[st] = 1 /\ calls[st] = 2

C20_RetryExactlyOnRetryable ==
    pc = "decided" =>
        ( should_retry(state) = "retry" <=>
            ( /\ ~state.success
              /\ state.error = TESTS_FAILED
              /\ state.iteration < state.max_iter ) )

\* C20 amended. For every AgentState, reachable or not, should_retry
\* depends on (success, iteration, max_iter, error) only; it returns
\* "retry" exactly when success is false, iteration < max_iter and the
\* error is the retryable sentinel or is absent (null or empty), and "end"
\* for every other combination; the edge taken is increment on "retry" and
\* END on "end".
C20_RetryTable ==
    pc = "decided" =>
        /\ should_retry(state) \in { "retry", "end" }
        /\ should_retry(state) = "retry" <=>
              ( /\ ~state.success
                /\ state.iteration < state.max_iter
                /\ state.error \in { TESTS_FAILED, None, <<>> } )
        /\ node = (IF should_retry(state) = "retry" THEN "increment" ELSE "END")
        /\ \A s \in AgentStates :
              ( /\ s.success = state.success
                /\ s.iteration = state.iteration
                /\ s.max_iter = state.max_iter
                /\ s.error = state.error ) => should_retry(s) = should_retry(state)

\* C20 witness: success false, a null error and budget left, a state no
\* run reaches: the decision taken is to retry.
C20_Witness ==
    /\ pc = "decided"
    /\ ~state.success
    /\ state.error = None
    /\ state.iteration = 1
    /\ state.max_iter = 3
    /\ node = "increment"

\* How the message of a stage's exception opens.
StagePrefix(st) ==
    CASE st = "auditor" -> <<"Auditor", "failed:">>
      [] st = "fixer" -> <<"Fixer", "failed:">>
      [] st = "judge" -> <<"Judge", "failed:">>

\* C21. From the step in which the Planner, the Mutator or the Verifier
\* raises and for the rest of the run, success is false and the error
\* field is that stage's message, "<Stage> failed: " followed by the text
\* of the exception; no later step of the run changes or clears it, and
\* the run ends with it, as a fatal error.
C21_FatalMessageKept ==
    [][ (InRun /\ pc' = "invoke" /\ raisedAt'.stage # "none") =>
          /\ ~state'.success
          /\ raisedAt'.stage \in { "auditor", "fixer" } =>
                \E m \in ExcMsgs : state'.error = StagePrefix(raisedAt'.stage) \o m
          /\ raisedAt'.stage = "judge" =>
                \E p \in PytestOutcomes :
                    state'.error = StagePrefix("judge") \o p.stderr
          /\ raisedAt.stage # "none" =>
                (raisedAt' = raisedAt /\ state'.error = state.error)
          /\ node' = "END" => IsFatal(state') ]_vars

\* C21 witness: the Planner raised "boom" in iteration 2 and the run has
\* ended, the skipped stages having left the message in place.
C21_Witness ==
    /\ Ended
    /\ raisedAt.stage = "auditor"
    /\ state.iteration = 2
    /\ state.error = <<"Auditor", "failed:", "boom">>
    /\ ~state.success

\* C22. When generate_tests raises in an iteration, the harness reference
\* of the state is cleared and the Verify of that iteration does not run a
\* harness file that generate_tests wrote in an earlier iteration of the
\* same run.
C22_NoStaleHarness ==
    (InRun /\ harnessFailed /\ judged.made) =>
        /\ state.test_file = NoPath
        /\ runner_target(state.file_path, disk).path \notin generated

\* C23. The search goes through six locations in a fixed order: the
\* test_-prefix and the _test-suffix file beside the artifact, the same two
\* in tests/ at the artifact's level, the same two in tests/ at the
\* parent's level.  A harness at any of the six is found, and the earliest
\* that exists is the one the runner is started on.
C23_SixLocationsSearched ==
    (InRun /\ judged.made) =>
        LET locs == SixLocations(state.file_path)
            hits == { j \in 1..Len(locs) : locs[j] \in disk }
        IN  /\ Len(locs) = 6
            /\ hits # {} =>
                  runner_target(state.file_path, disk) =
                      [layer |-> "harness",
                       path |-> locs[CHOOSE j \in hits : \A k \in hits : j <= k]]

\* C24. With no harness found by the search, discovery is started under
\* pytest; unittest discovery is started if and only if pytest is not
\* installed (starting it raised FileNotFoundError).  When pytest ran
\* (pass, fail, zero tests) or timed out, unittest is not started in that
\* Verify and the verdict comes from the pytest run or, on zero tests,
\* from the syntax check.
C24_SecondaryIffPrimaryMissing ==
    ( /\ InRun
      /\ judged.made
      /\ runner_target(state.file_path, disk).layer = "discovery" ) =>
        /\ judged.p1 \in PytestOutcomes
        /\ judged.p2 # NotRun <=> judged.p1.kind = "FileNotFoundError"
        /\ judged.p2 # NotRun => judged.p2 \in UnittestOutcomes
        /\ judged.p1.kind = "TimeoutExpired" => judged.v = Verdict(FALSE, TIMED_OUT)
        /\ judged.p1.kind = "ran" =>
              \/ judged.v = Verdict(judged.p1.returncode = 0,
                                    judged.p1.stdout \o judged.p1.stderr)
              \/ ReportsZero(judged.p1) /\ FromSyntaxCheck

\* C24 witness: pytest is not installed, unittest discovery ran one test
\* and passed.
C24_Witness ==
    /\ InRun
    /\ judged.made
    /\ runner_target(state.file_path, disk).layer = "discovery"
    /\ judged.p1.kind = "FileNotFoundError"
    /\ judged.p2 = Ran(0, <<>>, <<"Ran", "1", "test", "OK">>)
    /\ state.success

\* The runner whose transcript _run_test_file reads: pytest, or unittest
\* when pytest is not installed.
HarnessRun ==
    IF judged.p1.kind = "FileNotFoundError" THEN judged.p2 ELSE judged.p1

\* A harness file was located and the runner started on it ran to its end.
HarnessRan ==
    /\ InRun
    /\ judged.made
    /\ runner_target(state.file_path, disk).layer = "harness"
    /\ HarnessRun.kind = "ran"

\* C25 as stated. When a located harness has been run, passed is true iff
\* the exit code is 0, the transcript is the captured output, the syntax
\* check is not consulted, and a harness that collects zero tests yields a
\* failing verdict.
C25_HarnessRunDecidesZeroFails ==
    HarnessRan =>
        /\ judged.v = Verdict(HarnessRun.returncode = 0,
                              HarnessRun.stdout \o HarnessRun.stderr)
        /\ judged.syn = NotRun
        /\ ReportsZero(HarnessRun) => ~judged.v.success

\* C25 amended. When a located harness has been run, passed is true iff
\* the exit code is 0 and the transcript is the captured output; neither
\* the zero-tests markers nor the syntax check are consulted, so a harness
\* that collects zero tests is no fall-through: its verdict follows the
\* exit code like any other, failing when the runner exits non-zero on an
\* empty collection and passing when it exits 0.
C25_HarnessRunDecides ==
    HarnessRan =>
        /\ judged.v = Verdict(HarnessRun.returncode = 0,
                              HarnessRun.stdout \o HarnessRun.stderr)
        /\ judged.syn = NotRun
        /\ ~FromSyntaxCheck
        /\ state.success = (HarnessRun.returncode = 0)
        /\ state.test_logs = HarnessRun.stdout \o HarnessRun.stderr
        /\ ReportsZero(HarnessRun) =>
              (judged.v.success <=> HarnessRun.returncode = 0)

\* C25 witness: pytest is not installed, unittest ran the located harness,
\* collected no test and exited with 0: the Verify passed.
C25_Witness ==
    /\ HarnessRan
    /\ judged.p1.kind = "FileNotFoundError"
    /\ ReportsZero(judged.p2)
    /\ judged.p2.returncode = 0
    /\ state.success

\* The Verify of this iteration called _fallback_syntax_check: no harness
\* file was found, and discovery reported zero tests or could start no
\* runner.
FallbackCalled ==
    /\ InRun
    /\ judged.made
    /\ runner_target(state.file_path, disk).layer = "discovery"
    /\ ZeroTests(judged.p1, judged.p2) \/ NoRunner(judged.p1, judged.p2)

\* C26. The syntax-only fallback never raises and gives its verdict from
\* reading and parsing the artifact alone, whatever the runners did: a
\* source that parses gives a passing verdict annotated "No unit tests
\* found, ... has valid Python syntax."; a syntax error, or a file that
\* cannot be read, gives a failing verdict whose transcript carries the
\* error text.
C26_FallbackTotal ==
    FallbackCalled =>
        /\ judged.syn \in SyntaxOutcomes
        /\ ~judged.v.raised
        /\ judged.syn.kind = "ran" =>
              /\ judged.v.success
              /\ Contains(judged.v.logs, <<"No", "unit", "tests", "found,">>)
              /\ Contains(judged.v.logs, <<"has", "valid", "Python", "syntax.">>)
        /\ judged.syn.kind # "ran" =>
              /\ ~judged.v.success
              /\ Contains(judged.v.logs, judged.syn.stderr)
              /\ state.error = TESTS_FAILED
        /\ \A p \in PytestOutcomes \cup UnittestOutcomes :
              p.kind = "ran" => judged.v # Verdict(p.returncode = 0, p.stdout \o p.stderr)

\* C26 witness: the fallback was called and the artifact could not be
\* read; the Verify failed with the error text and nothing was raised.
C26_Witness ==
    /\ FallbackCalled
    /\ judged.syn.kind = "OSError"
    /\ ~state.success
    /\ Contains(state.test_logs, <<"cannot", "read">>)

\* C27. Artifacts are processed one after the other: a run starts only
\* when no run is in progress and every earlier artifact's run has ended
\* (at END or by an exception) and has its entry in results; it starts
\* from the same initial state, iteration 1, no plan, no harness, success
\* false, empty transcript, no error, whatever the earlier runs' outcomes;
\* and nothing but its own end takes the program out of a run.
C27_SequentialFreshRuns ==
    [][ /\ (pc # "invoke" /\ pc' = "invoke") =>
              /\ pc = "loop"
              /\ node = "idle"
              /\ Len(results) = i - 1
              /\ Len(finals) = i - 1
              /\ i' = i
              /\ state' = initial_state(py_files[i], max_iter)
              /\ state'.iteration = 1
              /\ state'.plan = PlanNone
              /\ state'.test_file = NoPath
              /\ state'.success = FALSE
              /\ state'.test_logs = <<>>
              /\ state'.error = None
              /\ node' = "auditor"
              /\ steps' = 0
        /\ (pc = "invoke" /\ pc' # "invoke") =>
              /\ node \in { "END", "raised" }
              /\ pc' = "loop"
              /\ i' = i + 1
              /\ Len(results') = i
        /\ (pc = "invoke" /\ pc' = "invoke") =>
              /\ i' = i
              /\ results' = results
              /\ state'.file_path = state.file_path
      ]_vars

\* C27 witness: the third artifact's run has just started from the initial
\* state, after one run that succeeded and one that did not.
C27_Witness ==
    /\ pc = "invoke"
    /\ i = 3
    /\ steps = 0
    /\ node = "auditor"
    /\ state = initial_state(py_files[3], max_iter)
    /\ Len(finals) = 2
    /\ finals[1].success
    /\ ~finals[2].success

\* The artifacts of the batch.
Artifacts == { py_files[k] : k \in 1..Len(py_files) }

\* C28. Within a run, only the Mutate stage overwrites the artifact: every
\* step that adds to the files overwritten is a step of the fixer node and
\* adds the artifact of the run and nothing else; the planner, the harness
\* generator, the verifier, the retry decision and the increment leave
\* them as they are.  The harness generator is the only stage that creates
\* a file, it writes test_<filename> beside the artifact and nothing else,
\* and that path is neither the artifact's own nor another artifact's.
C28_OnlyMutateOverwrites ==
    [][ (pc = "invoke" /\ pc' = "invoke") =>
          /\ written' # written =>
                /\ node = "fixer"
                /\ written' = written \cup { state.file_path }
          /\ node # "fixer" => written' = written
          /\ written' \subseteq { state.file_path }
          /\ generated' # generated => node = "tester"
          /\ disk' # disk =>
                /\ node = "tester"
                /\ disk' \ disk \subseteq generated'
          /\ \A p \in generated' :
                /\ p = Join(dirname(state.file_path),
                            TestPrefixed(basename(state.file_path)))
                /\ p # state.file_path
                /\ p \notin Artifacts
      ]_vars

\* C28 witness: in a second iteration, the harness generator has written
\* its file and the Mutate stage has overwritten the artifact, and the
\* Verifier has run after them.
C28_Witness ==
    /\ InRun
    /\ state.iteration = 2
    /\ judged.made
    /\ written = { state.file_path }
    /\ generated = { test_file_path(state.file_path) }
    /\ calls["fixer"] = 2

\* ------------------------------------------------- an external stop request
\* A request to stop arrives from outside while a run is in progress.  No
\* node, edge or loop of main.py reads it: should_retry looks at success,
\* error, iteration and max_iter only, and process_file at the final state.
RequestStop ==
    /\ pc = "invoke"
    /\ node \in Nodes
    /\ stop_requested = 0
    /\ stop_requested' = state.iteration
    /\ UNCHANGED << py_files, max_iter, disk, pc, i, results, exit_code, state,
                    node, steps, calls, iterCalls, raisedAt, harnessFailed,
                    passedAt, finals, judged, written, generated >>

StopInit == InitWith(1, { -(RECURSION_LIMIT_BUFFER \div 5), MaxIterBound }, { {1} })

StopNext ==
    \/ Main
    \/ ProcessFile
    \/ Auditor
    \/ Tester
    \/ Fixer
    \/ Judge
    \/ Increment
    \/ InvokeRaises
    \/ ProcessFileReturn
    \/ Summary
    \/ RequestStop

StopSpec == StopInit /\ [][StopNext]_vars

\* C29. Once a stop has been requested during a run, at most one further
\* iteration boundary is crossed before the run terminates: the iteration
\* counter never goes beyond the iteration after the one of the request.
C29_StopWithinOneBoundary ==
    (InRun /\ stop_requested > 0) => state.iteration <= stop_requested + 1

\* C30. Every step in which Judge.run_tests is called is taken in an
\* iteration whose Planner call returned a plan (the plan in the state is
\* a plan and is the one of this iteration) and whose Mutate call was made
\* and did not raise: nothing has raised in the run, and the artifact has
\* been overwritten.  judge_node's own guard, the error field, is enough
\* for that.
C30_VerifyOnlyAfterMutate ==
    [][ (InRun /\ calls'["judge"] # calls["judge"] /\ pc' = "invoke") =>
          /\ node = "judge"
          /\ ~Truthy(state.error)
          /\ iterCalls["auditor"] = 1
          /\ PlanTruthy(state.plan)
          /\ state.plan.gen = state.iteration
          /\ iterCalls["fixer"] = 1
          /\ raisedAt.stage = "none"
          /\ apply_fix_target(state.plan) = state.file_path
          /\ state.file_path \in written
          /\ iterCalls["judge"] = 0
      ]_vars

\* C30 witness: the Verify of a second iteration has been called, after
\* the Planner and the Mutate of that iteration.
C30_Witness ==
    /\ InRun
    /\ state.iteration = 2
    /\ judged.made
    /\ iterCalls["auditor"] = 1
    /\ iterCalls["fixer"] = 1
    /\ iterCalls["judge"] = 1
    /\ calls["judge"] = 2

PlannerOrMutatorFailed(e) == e.stage \in { "auditor", "fixer" }

\* C32. Only the Verify writes the transcript: a step that changes
\* test_logs is a step of the judge node that called run_tests.  The
\* transcript that crosses an iteration boundary is the one of the Verify
\* of the iteration that ends, and no step of the planner, the harness
\* generator or the mutator changes it, whether they fail or not.  So once
\* the Planner or the Mutator has failed no step changes the transcript up
\* to the end of the run: it is empty when the failure is in iteration 1,
\* and the transcript of the Verify of iteration k-1 when it is in
\* iteration k > 1.
C32_TranscriptOnlyByVerify ==
    [][ (InRun /\ pc' = "invoke") =>
          /\ state'.test_logs # state.test_logs =>
                /\ node = "judge"
                /\ calls'["judge"] # calls["judge"]
                /\ judged'.made
          /\ node \in { "auditor", "tester", "fixer", "increment" } =>
                state'.test_logs = state.test_logs
          /\ (node = "increment" /\ node' = "auditor") =>
                /\ judged.made
                /\ ~judged.v.raised
                /\ state.test_logs = judged.v.logs
          /\ PlannerOrMutatorFailed(raisedAt') =>
                /\ state'.test_logs = state.test_logs
                /\ ~judged'.made
                /\ raisedAt'.iteration = state'.iteration
                /\ raisedAt'.iteration = 1 => state'.test_logs = <<>>
                /\ raisedAt'.iteration > 1 =>
                      \E p \in PytestOutcomes \cup UnittestOutcomes \cup SyntaxOutcomes :
                         \/ state'.test_logs = p.stdout \o p.stderr
                         \/ state'.test_logs = TIMED_OUT
                         \/ state'.test_logs =
                               <<"Failed", "to", "run", "tests:">> \o p.stderr
                         \/ state'.test_logs =
                               <<"Syntax", "Error:">> \o p.stderr
                         \/ state'.test_logs =
                               <<"Error", "checking", "file:">> \o p.stderr
      ]_vars

\* C32 witness: the Mutate of iteration 2 raised; the run has ended with
\* the fatal error and with the transcript the failed Verify of iteration
\* 1 left.
C32_Witness ==
    /\ Ended
    /\ raisedAt.stage = "fixer"
    /\ raisedAt.iteration = 2
    /\ IsFatal(state)
    /\ state.test_logs # <<>>

\* C33. For max_iter >= 1 the graph nodes executed in a run (auditor,
\* tester, fixer, judge and increment, the skipped ones counted) are at
\* most 5 * max_iter - 1, which is below the recursion limit given to
\* invoke; no run is aborted by the limit, and no finished run of the
\* batch ended by an exception.
C33_WithinRecursionLimit ==
    max_iter >= 1 =>
        /\ InRun =>
              /\ steps <= (5 * state.max_iter) - 1
              /\ (5 * state.max_iter) - 1 < recursion_limit(state.max_iter)
              /\ steps < recursion_limit(state.max_iter)
              /\ node # "raised"
        /\ \A k \in 1..Len(finals) : finals[k].kind # "Exception"

\* C33 witness: a run with max_iter = 3 that used all its iterations has
\* ended after 5 * 3 - 1 = 14 node executions.
C33_Witness ==
    /\ Ended
    /\ state.max_iter = 3
    /\ state.iteration = 3
    /\ steps = 14

\* ------------------------------------------------- discovery of the artifacts
DiscoverLen == 3

\* str.startswith
startswith(str, prefix) ==
    Len(str) >= Len(prefix) /\ SubSeq(str, 1, Len(prefix)) = prefix

\* What os.listdir(target_dir) may hold: sources, a harness file left by an
\* earlier batch, a file that is no Python source.
ListedNames ==
    { FileName("alpha"), FileName("beta"), TestPrefixed(FileName("alpha")),
      [stem |-> "notes", ext |-> ".txt"] }

\* os.listdir: the names of the directory, each once, in any order.
Listings ==
    { l \in UNION { [1..n -> ListedNames] : n \in 0..DiscoverLen } :
        \A j, k \in 1..Len(l) : j # k => l[j] # l[k] }

\* discover_python_files without the test_ filter
discover_python_files_keeps_tests(target_dir, listing) ==
    LET kept == SelectSeq(listing, LAMBDA f : f.ext = ".py")
    IN  [k \in 1..Len(kept) |-> Join(target_dir, kept[k])]

\* discover_python_files: the list comprehension over os.listdir
discover_python_files(target_dir, listing) ==
    LET kept == SelectSeq(listing,
                          LAMBDA f : f.ext = ".py" /\ ~startswith(f.stem, "test_"))
    IN  [k \in 1..Len(kept) |-> Join(target_dir, kept[k])]

\* main started on a directory with any of the listings; the harness files
\* listed are the ones on disk.
DiscoverInit ==
    /\ \E listing \in Listings :
          /\ py_files = discover_python_files(TARGET_DIR, listing)
          /\ disk = { Join(TARGET_DIR, listing[k]) :
                        k \in { j \in 1..Len(listing) :
                                  startswith(listing[j].stem, "test_") } }
    /\ max_iter \in { -(RECURSION_LIMIT_BUFFER \div 5), 2 }
    /\ pc = "start"
    /\ i = 0
    /\ results = <<>>
    /\ exit_code = -1
    /\ state = initial_state(NoPath, 0)
    /\ node = "idle"
    /\ steps = 0
    /\ calls = NoCalls
    /\ iterCalls = NoCalls
    /\ raisedAt = NoEvent
    /\ harnessFailed = FALSE
    /\ passedAt = NoEvent
    /\ finals = <<>>
    /\ judged = NoJudged
    /\ written = {}
    /\ generated = {}
    /\ stop_requested = 0

DiscoverSpec == DiscoverInit /\ [][Next]_vars

\* No artifact of the batch has a name starting with test_, and none is
\* listed twice.
NoHarnessAmongArtifacts ==
    /\ \A k \in 1..Len(py_files) :
          ~startswith(basename(py_files[k]).stem, "test_")
    /\ \A j, k \in 1..Len(py_files) : j # k => py_files[j] # py_files[k]

\* C34. The artifacts are computed once, before the first run, and never
\* change afterwards, whatever is written to disk; none has a name
\* starting with test_ and none is listed twice.  A harness file, whether
\* it was on disk beforehand or the harness generator wrote it during a
\* run, is no artifact of the batch; the runs are the artifacts in their
\* order, each processed once.
C34_ArtifactsFixedNoHarness ==
    [][ /\ py_files' = py_files
        /\ NoHarnessAmongArtifacts
        /\ \A p \in disk' \cup generated' :
              startswith(basename(p).stem, "test_") => p \notin Artifacts
        /\ pc' = "invoke" => state'.file_path = py_files[i']
        /\ Len(finals') <= Len(py_files)
        /\ \A k \in 1..Len(finals') : finals'[k].file = py_files[k]
        /\ \A j, k \in 1..Len(finals') :
              j # k => finals'[j].file # finals'[k].file
      ]_vars

\* C34 witness: the directory held two sources and the harness of one of
\* them; the batch has ended, both sources were processed, once each, and
\* the harness files written during the runs are on disk.
C34_Witness ==
    /\ pc = "exited"
    /\ Len(py_files) = 2
    /\ Len(finals) = 2
    /\ \E k \in 1..2 :
          /\ test_file_path(py_files[k]) \in disk
          /\ test_file_path(py_files[3 - k]) \in disk

====
